---- MODULE Spec2Model ----
(***************************************************************************)
(* level-serve: an HTTP gateway over a level-store blob store.             *)
(*                                                                         *)
(* src/unnamed/part_000 is the gateway with store(), url() and the ETag    *)
(* (conditional-cache) handler; src/index.js is the older gateway with the *)
(* exists() probe.  Strings are sequences of one-character strings, so     *)
(* that split, concatenation and the string-to-number coercion are         *)
(* computed and not assumed.  A store handle is the chain of sublevel      *)
(* names that leads to it from the root database.                          *)
(***************************************************************************)
EXTENDS Naturals, Sequences, FiniteSets, TLC

VARIABLES
    db,         \* this.db: the handle the gateway was constructed on
    objects,    \* the level-store contents: records [part, id, data, index]
    sublevels,  \* the handles created so far by db.sublevel(name)
    clock,      \* the store's timestamp source for the index of a write
    writes,     \* the store() calls made so far, each with its closure
    reqs,       \* the requests handed to serve so far, each with its closure
    codec       \* the last call of an exported pure function, with its result

vars == <<db, objects, sublevels, clock, writes, reqs, codec>>

----------------------------------------------------------------------------
(* Bounds of the model.                                                    *)

\* segments of a generated path
MaxSegs == 5
\* depth of a generated namespace chain
MaxChain == 2
\* calls of resolveSubLevel under SpecResolve
MaxResolves == 2
\* calls of the gateway under Spec: store() calls and requests together
MaxOps == 2
\* requests among them
MaxReqs == 1
\* store() calls under SpecStore
MaxCalls == 2

----------------------------------------------------------------------------
(* Strings.                                                                *)

SLASH == "/"

FILES == <<"f", "i", "l", "e", "s">>

FAVICON == <<"/", "f", "a", "v", "i", "c", "o", "n", ".", "i", "c", "o">>

\* JavaScript's undefined, a value no string is equal to
Undefined == <<"undefined">>

\* !x for a string or undefined
Falsy(x) == x = Undefined \/ x = <<>>

RECURSIVE splitFrom(_, _, _)
splitFrom(s, i, seg) ==
    IF i > Len(s) THEN <<seg>>
    ELSE IF s[i] = SLASH THEN <<seg>> \o splitFrom(s, i + 1, <<>>)
    ELSE splitFrom(s, i + 1, Append(seg, s[i]))

\* String.prototype.split('/')
Split(s) == splitFrom(s, 1, <<>>)

\* segs[i] with JavaScript's 0-based index
At(segs, i) == IF i + 1 <= Len(segs) THEN segs[i + 1] ELSE Undefined

\* Array.prototype.slice(from, to), 0 <= from
Slice(segs, from, to) ==
    IF to > Len(segs) THEN SubSeq(segs, from + 1, Len(segs))
    ELSE SubSeq(segs, from + 1, to)

----------------------------------------------------------------------------
(* Store handles (level-sublevel).                                         *)

Root == <<>>

\* db._parent && db._parent != db
HasParent(h) == Len(h) > 0

Parent(h) == SubSeq(h, 1, Len(h) - 1)

Prefix(h) == h[Len(h)]

\* db.sublevel(name)
Sublevel(h, name) == Append(h, name)

----------------------------------------------------------------------------
(* URL codec.                                                              *)

NoMatch == [match |-> FALSE, id |-> Undefined, sublevels |-> <<>>]

parseURL_sliceFrom1(url) ==
    LET segs == Split(url) IN
    IF At(segs, 1) # FILES \/ Falsy(At(segs, 2)) THEN NoMatch
    ELSE [match |-> TRUE,
          id |-> At(segs, Len(segs) - 1),
          sublevels |-> Slice(segs, 1, Len(segs) - 1)]

\* part_000: parseURL
parseURL(url) ==
    LET segs == Split(url) IN
    IF At(segs, 1) # FILES \/ Falsy(At(segs, 2)) THEN NoMatch
    ELSE [match |-> TRUE,
          id |-> At(segs, Len(segs) - 1),
          sublevels |-> Slice(segs, 2, Len(segs) - 1)]

\* index.js: parseURL
parseURL_index(url) ==
    LET all == Split(url)
        segs == Slice(all, 1, Len(all)) IN
    IF At(segs, 0) # FILES \/ Falsy(At(segs, 1)) THEN NoMatch
    ELSE [match |-> TRUE,
          id |-> At(segs, Len(segs) - 1),
          sublevels |-> Slice(segs, 1, Len(segs) - 1)]

RECURSIVE walkUp(_, _)
walkUp(h, acc) ==
    IF HasParent(h) THEN walkUp(Parent(h), Prefix(h) \o <<SLASH>> \o acc)
    ELSE acc

\* Server.prototype.url, on a gateway whose this.db is h
url(h, id) == <<SLASH>> \o FILES \o <<SLASH>> \o walkUp(h, <<>>) \o id

RECURSIVE resolveFrom_fromEnd(_, _, _)
resolveFrom_fromEnd(h, chain, i) ==
    IF i > Len(chain) THEN h
    ELSE Sublevel(resolveFrom_fromEnd(h, chain, i + 1), chain[i])

RECURSIVE resolveFrom(_, _, _)
resolveFrom(h, chain, i) ==
    IF i > Len(chain) THEN h
    ELSE resolveFrom(Sublevel(h, chain[i]), chain, i + 1)

resolveSubLevel_noDescent(h, chain) == h

\* resolveSubLevel(db, sublevels)
resolveSubLevel(h, chain) == resolveFrom(h, chain, 1)

RECURSIVE createdFrom(_, _, _)
createdFrom(h, chain, i) ==
    IF i > Len(chain) THEN {}
    ELSE {Sublevel(h, chain[i])} \cup createdFrom(Sublevel(h, chain[i]), chain, i + 1)

\* the handles the db.sublevel() calls of resolveSubLevel obtain
resolved(h, chain) == createdFrom(h, chain, 1)

----------------------------------------------------------------------------
(* Inputs of the codec specification.                                      *)

A == <<"a">>
X == <<"x">>

\* path segments: empty, the route prefix, a near miss of it, plain names
Segs == {<<>>, FILES, <<"f", "i", "l", "e">>, A, X}

\* ids and sublevel names handed to url(): plain, empty, holding a slash
Names == {A, X, <<>>, <<"a", "/", "x">>}

RECURSIVE SeqsUpTo(_, _)
SeqsUpTo(S, n) ==
    IF n = 0 THEN {<<>>}
    ELSE LET shorter == SeqsUpTo(S, n - 1) IN
         shorter \cup {Append(q, e) : q \in shorter, e \in S}

RECURSIVE Join(_)
Join(segs) ==
    IF Len(segs) = 0 THEN <<>>
    ELSE IF Len(segs) = 1 THEN segs[1]
    ELSE segs[1] \o <<SLASH>> \o Join(Tail(segs))

Paths == {Join(q) : q \in SeqsUpTo(Segs, MaxSegs)}

Chains == SeqsUpTo(Names, MaxChain)

\* n: the calls made so far
NoCall ==
    [fn |-> "none", arg |-> <<>>, id |-> <<>>, ret |-> NoMatch, ret0 |-> NoMatch,
     n |-> 0]

----------------------------------------------------------------------------
(* Numbers and their decimal text.                                         *)

Digits == <<"0", "1", "2", "3", "4", "5", "6", "7", "8", "9">>

DigitVal(c) == (CHOOSE k \in 1..10 : Digits[k] = c) - 1

IsNumeric(s) == \A k \in 1..Len(s) : \E d \in 1..10 : Digits[d] = s[k]

RECURSIVE StrToNum(_)
\* ToNumber of a string of decimal digits; '' is 0
StrToNum(s) ==
    IF Len(s) = 0 THEN 0
    ELSE 10 * StrToNum(SubSeq(s, 1, Len(s) - 1)) + DigitVal(s[Len(s)])

RECURSIVE NumToStr(_)
\* String(n) of a non-negative integer
NumToStr(n) ==
    IF n < 10 THEN <<Digits[n + 1]>>
    ELSE Append(NumToStr(n \div 10), Digits[(n % 10) + 1])

\* etag == mtime: a header string against a number; undefined equals no number
LooseEq(etag, mtime) ==
    /\ etag # Undefined
    /\ IsNumeric(etag)
    /\ StrToNum(etag) = mtime

----------------------------------------------------------------------------
(* simple-mime with the default 'application/octet-stream'.                *)

RECURSIVE extFrom(_, _)
extFrom(id, i) ==
    IF i = 0 THEN <<>>
    ELSE IF id[i] = "." THEN SubSeq(id, i + 1, Len(id))
    ELSE extFrom(id, i - 1)

MimeTypes == (<<"t", "x", "t">> :> "text/plain") @@ (<<"j", "s">> :> "application/javascript")

mime(id) ==
    LET ext == extFrom(id, Len(id)) IN
    IF ext \in DOMAIN MimeTypes THEN MimeTypes[ext] ELSE "application/octet-stream"

----------------------------------------------------------------------------
(* The level-store behind a handle.                                        *)

Has(part, id) == \E o \in objects : o.part = part /\ o.id = id

Get(part, id) == CHOOSE o \in objects : o.part = part /\ o.id = id

\* the committed write of data under id in part, stamped with index t
Put(part, id, data, t) ==
    {o \in objects : ~(o.part = part /\ o.id = id)}
        \cup {[part |-> part, id |-> id, data |-> data, index |-> NumToStr(t)]}

----------------------------------------------------------------------------
(* http.ServerResponse.                                                    *)

NewResponse ==
    [statusCode |-> 200, status |-> 0, headers |-> <<>>, headersSent |-> FALSE,
     body |-> <<>>, ended |-> FALSE, threw |-> FALSE, env |-> ""]

\* res.setHeader(name, value); throws once the headers are sent
setHeader(res, name, value) ==
    IF res.headersSent THEN [res EXCEPT !.threw = TRUE]
    ELSE [res EXCEPT !.headers = (name :> value) @@ @]

\* res.writeHead(code) on a response whose headers are not sent
writeHead(res, code) ==
    [res EXCEPT !.statusCode = code, !.status = code, !.headersSent = TRUE]

\* res.write(chunk), as pipe calls it
write(res, chunk) ==
    IF res.ended THEN res
    ELSE [res EXCEPT !.status = IF res.headersSent THEN @ ELSE res.statusCode,
                     !.headersSent = TRUE,
                     !.body = Append(@, chunk)]

\* res.end(chunks): chunks is <<>> or <<text>>
end(res, chunks) ==
    IF res.ended THEN res
    ELSE [res EXCEPT !.status = IF res.headersSent THEN @ ELSE res.statusCode,
                     !.headersSent = TRUE,
                     !.body = @ \o chunks,
                     !.ended = TRUE]

----------------------------------------------------------------------------
(* The handlers of a request (part_000).                                   *)

NotFoundMessage == "File not found."

StoreFailure == "store failure"

\* err.toString()
ErrToString(message) ==
    IF message = NotFoundMessage THEN "Error: File not found." ELSE "Error: store failure"

Oops == "oops."

\* process.env.NODE_ENV, as the handler reads it
NodeEnv(production) == IF production THEN "production" ELSE "development"

createError_inverted(res, message, strict, production) ==
    IF res.headersSent /\ strict THEN [res EXCEPT !.threw = TRUE]
    ELSE LET head == IF res.headersSent THEN [res EXCEPT !.statusCode = 500]
                     ELSE writeHead(res, 500)
             seen == IF head.ended THEN head ELSE [head EXCEPT !.env = NodeEnv(production)] IN
         IF NodeEnv(production) = "production"
         THEN end(seen, <<ErrToString(message)>>)
         ELSE end(seen, <<Oops>>)

\* the handler createError returns.  production: what NODE_ENV holds when the
\* handler runs.  strict: this Node throws from writeHead once the headers are
\* sent; otherwise writeHead only overwrites statusCode.  res.env keeps the
\* NODE_ENV read by the run of the handler that wrote the body.
createError(res, message, strict, production) ==
    IF res.headersSent /\ strict THEN [res EXCEPT !.threw = TRUE]
    ELSE LET head == IF res.headersSent THEN [res EXCEPT !.statusCode = 500]
                     ELSE writeHead(res, 500)
             seen == IF head.ended THEN head ELSE [head EXCEPT !.env = NodeEnv(production)] IN
         IF NodeEnv(production) # "production"
         THEN end(seen, <<ErrToString(message)>>)
         ELSE end(seen, <<Oops>>)

\* error(err): the caller's callback, or the one serve made with createError
error(r, message, strict, production) ==
    IF r.custom
    THEN [r EXCEPT !.cb = Append(@, message), !.log = Append(@, "error")]
    ELSE [r EXCEPT !.res = createError(r.res, message, strict, production),
                   !.log = Append(@, "error")]

\* the handler createNotFound(req, res, error) returns; hasError: error is truthy
createNotFound(r, hasError, strict, production) ==
    IF hasError
    THEN error([r EXCEPT !.log = Append(@, "notFound")], NotFoundMessage,
               strict, production)
    ELSE [r EXCEPT !.res = end(writeHead(r.res, 404), <<NotFoundMessage>>),
                   !.log = Append(@, "notFound")]

\* notFound(), bound in serve after `if (!error) error = createError(req, res)`
notFound(r, strict, production) == createNotFound(r, TRUE, strict, production)

send_noReturn(r, mtime) ==
    LET h1 == setHeader(r.res, "Content-Type", mime(r.query.id))
        h2 == setHeader(h1, "ETag", NumToStr(mtime)) IN
    IF r.res.headersSent THEN [r EXCEPT !.res = h1]
    ELSE IF LooseEq(r.inm, mtime)
    THEN [r EXCEPT !.res = end([h2 EXCEPT !.statusCode = 304], <<>>),
                   !.payload = "open", !.log = Append(@, "send304")]
    ELSE [r EXCEPT !.res = h2, !.payload = "open", !.log = Append(@, "send200")]

\* send(mtime)
send(r, mtime) ==
    LET h1 == setHeader(r.res, "Content-Type", mime(r.query.id))
        h2 == setHeader(h1, "ETag", NumToStr(mtime)) IN
    IF r.res.headersSent THEN [r EXCEPT !.res = h1]
    ELSE IF LooseEq(r.inm, mtime)
    THEN [r EXCEPT !.res = end([h2 EXCEPT !.statusCode = 304], <<>>),
                   !.log = Append(@, "send304")]
    ELSE [r EXCEPT !.res = h2, !.payload = "open", !.log = Append(@, "send200")]

----------------------------------------------------------------------------
(* Inputs of the gateway specifications.                                   *)

\* the handles a gateway is constructed on: the root and a sublevel of it
GatewayHandles == {Root, <<A>>}

\* the ids store() is called with
Ids == {X}

\* the payload of the n-th store() call: every call writes bytes of its own
Payloads == <<"p1", "p2", "p3", "p4">>

Payload(n) == Payloads[((n - 1) % Len(Payloads)) + 1]

\* request paths that decode: id x in the root and in sublevel a
FileUrls == {url(Root, X), url(<<A>>, X)}

\* request paths that do not: the favicon, a wrong prefix, the prefix without an id
OtherUrls == {FAVICON, <<SLASH, "n">>, <<SLASH>> \o FILES \o <<SLASH>>}

\* If-None-Match: none, the markers 1 and 2, and 1 written with a leading zero
IfNoneMatch == {Undefined, <<"1">>, <<"0", "1">>, <<"2">>}

\* the requests: the header matters to a path that decodes
Requests ==
    {[url |-> u, inm |-> v] : u \in FileUrls, v \in IfNoneMatch}
        \cup {[url |-> u, inm |-> Undefined] : u \in OtherUrls}

----------------------------------------------------------------------------
(* Server.prototype.store and the events of its write stream.              *)

\* db: this.db of the gateway store() was called on; at: the index the store
\* gave the write when it committed, 0 before
NewWrite(id, data, hasFn) ==
    [id |-> id, data |-> data, hasFn |-> hasFn, called |-> FALSE,
     args |-> <<>>, events |-> <<>>, db |-> db, at |-> 0]

\* store(id, data, fn): the write stream is made, written, ended, and then the
\* two listeners are registered; the stream emits on later turns
store(id, data, hasFn) ==
    /\ writes' = Append(writes, NewWrite(id, data, hasFn))
    /\ UNCHANGED <<db, objects, sublevels, clock, reqs, codec>>

\* store(id, data, fn) called on another gateway of the same database, made
\* on the handle h
store_on(h, id, data, hasFn) ==
    /\ writes' = Append(writes, [NewWrite(id, data, hasFn) EXCEPT !.db = h])
    /\ UNCHANGED <<db, objects, sublevels, clock, reqs, codec>>

onError_noArgument(w) ==
    IF ~w.hasFn \/ w.called THEN w
    ELSE [w EXCEPT !.called = TRUE, !.args = Append(@, "void")]

\* the 'error' listener
onError(w) ==
    IF ~w.hasFn \/ w.called THEN w
    ELSE [w EXCEPT !.called = TRUE, !.args = Append(@, "err")]

onClose_noGuard(w) ==
    IF ~w.hasFn THEN w
    ELSE [w EXCEPT !.called = TRUE, !.args = Append(@, "void")]

\* the 'close' listener
onClose(w) ==
    IF ~w.hasFn \/ w.called THEN w
    ELSE [w EXCEPT !.called = TRUE, !.args = Append(@, "void")]

Emitted(w, ev) == \E k \in 1..Len(w.events) : w.events[k] = ev

\* the write stream emits 'error': the write failed, or failed after it closed
WsError(i) ==
    /\ i \in 1..Len(writes)
    /\ ~Emitted(writes[i], "error")
    /\ writes' = [writes EXCEPT ![i] = onError([@ EXCEPT !.events = Append(@, "error")])]
    /\ UNCHANGED <<db, objects, sublevels, clock, reqs, codec>>

\* the write stream emits 'close'; with no error before it the payload is
\* committed under the id in the gateway's partition, with a fresh index
WsClose(i) ==
    /\ i \in 1..Len(writes)
    /\ ~Emitted(writes[i], "close")
    /\ IF Emitted(writes[i], "error")
       THEN /\ UNCHANGED <<objects, clock>>
            /\ writes' = [writes EXCEPT ![i] =
                              onClose([@ EXCEPT !.events = Append(@, "close")])]
       ELSE /\ clock' = clock + 1
            /\ objects' = Put(writes[i].db, writes[i].id, writes[i].data, clock + 1)
            /\ writes' = [writes EXCEPT ![i] =
                              onClose([@ EXCEPT !.events = Append(@, "close"),
                                                !.at = clock + 1])]
    /\ UNCHANGED <<db, sublevels, reqs, codec>>

----------------------------------------------------------------------------
(* Server.prototype.serve / handle (part_000) and the events of its        *)
(* streams.                                                                *)

NewRequest(u, inm, custom) ==
    [url |-> u, inm |-> inm, custom |-> custom, t0 |-> clock,
     query |-> NoMatch, store |-> Root, probe |-> "none", events |-> <<>>,
     found |-> FALSE, payload |-> "none", res |-> NewResponse,
     cb |-> <<>>, log |-> <<>>, policy |-> "etag"]

serve_noFavicon(u, inm, custom, production) ==
    LET r == NewRequest(u, inm, custom)
        query == parseURL(u) IN
    IF ~query.match
    THEN /\ reqs' = Append(reqs, notFound(r, TRUE, production))
         /\ UNCHANGED <<db, objects, sublevels, clock, writes, codec>>
    ELSE /\ reqs' = Append(reqs, [r EXCEPT !.query = query,
                                          !.store = resolveSubLevel(db, query.sublevels),
                                          !.probe = "open"])
         /\ sublevels' = sublevels \cup resolved(db, query.sublevels)
         /\ UNCHANGED <<db, objects, clock, writes, codec>>

\* the synchronous part of serve
serve(u, inm, custom, production) ==
    LET r == NewRequest(u, inm, custom)
        query == parseURL(u) IN
    IF u = FAVICON
    THEN /\ reqs' = Append(reqs, [r EXCEPT !.res = end(r.res, <<>>)])
         /\ UNCHANGED <<db, objects, sublevels, clock, writes, codec>>
    ELSE IF ~query.match
    THEN /\ reqs' = Append(reqs, notFound(r, TRUE, production))
         /\ UNCHANGED <<db, objects, sublevels, clock, writes, codec>>
    ELSE /\ reqs' = Append(reqs, [r EXCEPT !.query = query,
                                          !.store = resolveSubLevel(db, query.sublevels),
                                          !.probe = "open"])
         /\ sublevels' = sublevels \cup resolved(db, query.sublevels)
         /\ UNCHANGED <<db, objects, clock, writes, codec>>

Seen(r, ev) == \E k \in 1..Len(r.events) : r.events[k] = ev

\* the probe stream (limit 1, index true) emits the first chunk of the object
ProbeData(i) ==
    /\ i \in 1..Len(reqs)
    /\ reqs[i].probe = "open"
    /\ reqs[i].events = <<>>
    /\ Has(reqs[i].store, reqs[i].query.id)
    /\ LET r == [reqs[i] EXCEPT !.events = Append(@, "data"), !.found = TRUE]
           obj == Get(r.store, r.query.id) IN
       reqs' = [reqs EXCEPT ![i] = send(r, StrToNum(obj.index))]
    /\ UNCHANGED <<db, objects, sublevels, clock, writes, codec>>

ProbeEnd_sharedClosure(i, strict, production) ==
    /\ i \in 1..Len(reqs)
    /\ reqs[i].probe = "open"
    /\ ~Seen(reqs[i], "end")
    /\ \/ reqs[i].events # <<>>
       \/ ~Has(reqs[i].store, reqs[i].query.id)
    /\ LET r == [reqs[i] EXCEPT !.events = Append(@, "end"), !.probe = "ended"]
           seen == [reqs EXCEPT ![i] = r] IN
       reqs' = IF ~r.found
               THEN [seen EXCEPT ![Len(reqs)] = notFound(@, strict, production)]
               ELSE seen
    /\ UNCHANGED <<db, objects, sublevels, clock, writes, codec>>

\* the probe stream emits 'end': after its chunk, after an error, or at once
\* when there is no object
ProbeEnd(i, strict, production) ==
    /\ i \in 1..Len(reqs)
    /\ reqs[i].probe = "open"
    /\ ~Seen(reqs[i], "end")
    /\ \/ reqs[i].events # <<>>
       \/ ~Has(reqs[i].store, reqs[i].query.id)
    /\ LET r == [reqs[i] EXCEPT !.events = Append(@, "end"), !.probe = "ended"] IN
       reqs' = [reqs EXCEPT ![i] = IF ~r.found THEN notFound(r, strict, production) ELSE r]
    /\ UNCHANGED <<db, objects, sublevels, clock, writes, codec>>

\* the probe stream emits 'error'
ProbeError(i, strict, production) ==
    /\ i \in 1..Len(reqs)
    /\ reqs[i].probe = "open"
    /\ ~Seen(reqs[i], "error")
    /\ LET r == [reqs[i] EXCEPT !.events = Append(@, "error")] IN
       reqs' = [reqs EXCEPT ![i] = error(r, StoreFailure, strict, production)]
    /\ UNCHANGED <<db, objects, sublevels, clock, writes, codec>>

\* the payload stream piped to res emits the object's bytes
PayloadData(i) ==
    /\ i \in 1..Len(reqs)
    /\ reqs[i].payload = "open"
    /\ Has(reqs[i].store, reqs[i].query.id)
    /\ LET obj == Get(reqs[i].store, reqs[i].query.id) IN
       reqs' = [reqs EXCEPT ![i] = [@ EXCEPT !.res = write(@, obj.data),
                                             !.payload = "flowing"]]
    /\ UNCHANGED <<db, objects, sublevels, clock, writes, codec>>

\* the payload stream ends and pipe ends res
PayloadEnd(i) ==
    /\ i \in 1..Len(reqs)
    /\ reqs[i].payload = "flowing"
    /\ reqs' = [reqs EXCEPT ![i] = [@ EXCEPT !.res = end(@, <<>>),
                                             !.payload = "ended"]]
    /\ UNCHANGED <<db, objects, sublevels, clock, writes, codec>>

\* the payload stream emits 'error'.  Nothing listens: pipe forwards no error
\* and ends nothing, and an 'error' event without a listener is thrown by the
\* emitter, uncaught.  The response stays as it is.
PayloadError(i) ==
    /\ i \in 1..Len(reqs)
    /\ reqs[i].payload \in {"open", "flowing"}
    /\ reqs' = [reqs EXCEPT ![i] = [@ EXCEPT !.payload = "failed",
                                             !.log = Append(@, "uncaught")]]
    /\ UNCHANGED <<db, objects, sublevels, clock, writes, codec>>

----------------------------------------------------------------------------
(* Server.prototype.serve of index.js: the existence-only gateway.         *)

notFound_index_delegating(r) == createNotFound(r, TRUE, FALSE, FALSE)

\* notFound(), made by index.js's createNotFound(req, res)
notFound_index(r) == createNotFound(r, FALSE, FALSE, FALSE)

\* the synchronous part of serve
serve_index(u, custom, production) ==
    LET r == [NewRequest(u, Undefined, custom) EXCEPT !.policy = "exists"]
        query == parseURL_index(u) IN
    IF u = FAVICON
    THEN /\ reqs' = Append(reqs, [r EXCEPT !.res = end(r.res, <<>>)])
         /\ UNCHANGED <<db, objects, sublevels, clock, writes, codec>>
    ELSE IF ~query.match
    THEN /\ reqs' = Append(reqs, notFound_index(r))
         /\ UNCHANGED <<db, objects, sublevels, clock, writes, codec>>
    ELSE /\ reqs' = Append(reqs, [r EXCEPT !.query = query,
                                          !.store = resolveSubLevel(db, query.sublevels),
                                          !.probe = "exists"])
         /\ sublevels' = sublevels \cup resolved(db, query.sublevels)
         /\ UNCHANGED <<db, objects, clock, writes, codec>>

\* what the callback of store.exists does when the id exists
sendFound(r) ==
    [r EXCEPT !.res = [writeHead(@, 200) EXCEPT
                          !.headers = ("Content-Type" :> mime(r.query.id)) @@ @],
              !.found = TRUE, !.payload = "open", !.log = Append(@, "send200")]

ExistsCallback_noReturn(i, err, strict, production) ==
    /\ i \in 1..Len(reqs)
    /\ reqs[i].probe = "exists"
    /\ LET exists == Has(reqs[i].store, reqs[i].query.id)
           r == [reqs[i] EXCEPT !.probe = "ended",
                                !.events = <<IF err THEN "error"
                                             ELSE IF exists THEN "present"
                                             ELSE "absent">>] IN
       reqs' = [reqs EXCEPT ![i] =
                   IF err THEN error(r, StoreFailure, strict, production)
                   ELSE IF ~exists THEN sendFound(notFound_index(r))
                   ELSE sendFound(r)]
    /\ UNCHANGED <<db, objects, sublevels, clock, writes, codec>>

\* the callback of store.exists(query.id, ...) runs, with an error or with
\* whether the store holds the id
ExistsCallback(i, err, strict, production) ==
    /\ i \in 1..Len(reqs)
    /\ reqs[i].probe = "exists"
    /\ LET exists == Has(reqs[i].store, reqs[i].query.id)
           r == [reqs[i] EXCEPT !.probe = "ended",
                                !.events = <<IF err THEN "error"
                                             ELSE IF exists THEN "present"
                                             ELSE "absent">>] IN
       reqs' = [reqs EXCEPT ![i] =
                   IF err THEN error(r, StoreFailure, strict, production)
                   ELSE IF ~exists THEN notFound_index(r)
                   ELSE sendFound(r)]
    /\ UNCHANGED <<db, objects, sublevels, clock, writes, codec>>

----------------------------------------------------------------------------
(* The exported pure functions, called on their own.                       *)

CallParse(p) ==
    /\ codec = NoCall
    /\ codec' = [fn |-> "parseURL", arg |-> p, id |-> <<>>,
                 ret |-> parseURL(p), ret0 |-> parseURL_index(p), n |-> 1]
    /\ UNCHANGED <<db, objects, sublevels, clock, writes, reqs>>

\* url(id) on a gateway made on the handle that chain resolves to
CallUrl(chain, id) ==
    LET h == resolveSubLevel(Root, chain)
        u == url(h, id) IN
    /\ codec = NoCall
    /\ codec' = [fn |-> "url", arg |-> chain, id |-> id,
                 ret |-> parseURL(u), ret0 |-> parseURL_index(u), n |-> 1]
    /\ UNCHANGED <<db, objects, sublevels, clock, writes, reqs>>

\* resolveSubLevel(h, chain): ret is the handle returned, ret0 the handles its
\* db.sublevel() calls created -- those it obtained that did not exist yet
CallResolve(h, chain) ==
    /\ codec.fn \in {"none", "resolveSubLevel"}
    /\ codec.n < MaxResolves
    /\ codec' = [fn |-> "resolveSubLevel", arg |-> chain, id |-> h,
                 ret |-> resolveSubLevel(h, chain),
                 ret0 |-> resolved(h, chain) \ sublevels,
                 n |-> codec.n + 1]
    /\ sublevels' = sublevels \cup resolved(h, chain)
    /\ UNCHANGED <<db, objects, clock, writes, reqs>>

----------------------------------------------------------------------------
(* Specifications.                                                         *)

Init ==
    /\ db \in GatewayHandles
    /\ objects = {}
    /\ sublevels = {}
    /\ clock = 0
    /\ writes = <<>>
    /\ reqs = <<>>
    /\ codec = NoCall

DoStore == \E id \in Ids :
    Len(writes) + Len(reqs) < MaxOps /\ store(id, Payload(Len(writes) + 1), TRUE)

DoWsError == \E i \in 1..Len(writes) : WsError(i)

DoWsClose == \E i \in 1..Len(writes) : WsClose(i)

DoServe ==
    \E q \in Requests, custom \in BOOLEAN, production \in BOOLEAN :
        /\ Len(writes) + Len(reqs) < MaxOps
        /\ Len(reqs) < MaxReqs
        /\ serve(q.url, q.inm, custom, production)

DoProbeData == \E i \in 1..Len(reqs) : ProbeData(i)

DoProbeEnd == \E i \in 1..Len(reqs), strict \in BOOLEAN, production \in BOOLEAN :
    ProbeEnd(i, strict, production)

DoProbeError == \E i \in 1..Len(reqs), strict \in BOOLEAN, production \in BOOLEAN :
    ProbeError(i, strict, production)

DoPayloadData == \E i \in 1..Len(reqs) : PayloadData(i)

DoPayloadEnd == \E i \in 1..Len(reqs) : PayloadEnd(i)

DoPayloadError == \E i \in 1..Len(reqs) : PayloadError(i)

Next ==
    \/ DoStore
    \/ DoWsError
    \/ DoWsClose
    \/ DoServe
    \/ DoProbeData
    \/ DoProbeEnd
    \/ DoProbeError
    \/ DoPayloadData
    \/ DoPayloadEnd
    \/ DoPayloadError

\* the gateway: store() calls and requests, interleaved
Spec == Init /\ [][Next]_vars

DoServeIndex ==
    \E u \in FileUrls \cup OtherUrls, custom \in BOOLEAN, production \in BOOLEAN :
        /\ Len(writes) + Len(reqs) < MaxOps
        /\ Len(reqs) < MaxReqs
        /\ serve_index(u, custom, production)

DoExistsCallback ==
    \E i \in 1..Len(reqs), err \in BOOLEAN, strict \in BOOLEAN, production \in BOOLEAN :
        ExistsCallback(i, err, strict, production)

NextGateways ==
    \/ Next
    \/ DoServeIndex
    \/ DoExistsCallback

\* gateways of both modules over one database
SpecGateways == Init /\ [][NextGateways]_vars

DoStoreAny == \E id \in Ids, hasFn \in BOOLEAN :
    Len(writes) < MaxCalls /\ store(id, Payload(Len(writes) + 1), hasFn)

NextStore ==
    \/ DoStoreAny
    \/ DoWsError
    \/ DoWsClose

\* store() calls alone, with and without a completion callback
SpecStore == Init /\ [][NextStore]_vars

DoCallParse == \E p \in Paths : CallParse(p)

DoCallUrl == \E chain \in Chains, id \in Names : CallUrl(chain, id)

NextCodec ==
    \/ DoCallParse
    \/ DoCallUrl

\* the URL codec alone
SpecCodec == Init /\ [][NextCodec]_vars

DoStoreUpTo == \E id \in Ids :
    Len(writes) < MaxCalls /\ store(id, Payload(Len(writes) + 1), TRUE)

DoServeUpTo ==
    \E q \in Requests, custom \in BOOLEAN, production \in BOOLEAN :
        Len(reqs) < MaxReqs /\ serve(q.url, q.inm, custom, production)

NextOverwrite ==
    \/ DoStoreUpTo
    \/ DoWsError
    \/ DoWsClose
    \/ DoServeUpTo
    \/ DoProbeData
    \/ DoProbeEnd
    \/ DoProbeError
    \/ DoPayloadData
    \/ DoPayloadEnd
    \/ DoPayloadError

\* chains of the plain names a and x
PlainChains == SeqsUpTo({A, X}, MaxChain)

DoCallResolve == \E h \in GatewayHandles, chain \in PlainChains : CallResolve(h, chain)

NextResolve == DoCallResolve

\* resolveSubLevel alone, called again and again on one database
SpecResolve == Init /\ [][NextResolve]_vars

\* store() calls made one after the other before any request arrives
DoStoreBefore == \E id \in Ids :
    /\ reqs = <<>>
    /\ Len(writes) < MaxCalls
    /\ \A i \in 1..Len(writes) : writes[i].called
    /\ store(id, Payload(Len(writes) + 1), TRUE)

\* the requests that run side by side: for a stored id, with and without the
\* marker of its first version, and for a path that does not decode
PairRequests ==
    {[url |-> url(Root, X), inm |-> v] : v \in {Undefined, <<"1">>}}
        \cup {[url |-> <<SLASH, "n">>, inm |-> Undefined]}

\* two requests, which arrive once every write has closed, so that neither
\* sees the store change
DoServeAfter ==
    \E q \in PairRequests, custom \in BOOLEAN, production \in BOOLEAN :
        /\ Len(reqs) < 2
        /\ \A i \in 1..Len(writes) : Emitted(writes[i], "close")
        /\ serve(q.url, q.inm, custom, production)

NextPair ==
    \/ DoStoreBefore
    \/ DoWsClose
    \/ DoServeAfter
    \/ DoProbeData
    \/ DoProbeEnd
    \/ DoProbeError
    \/ DoPayloadData
    \/ DoPayloadEnd
    \/ DoPayloadError

\* requests side by side on one gateway, the store left alone meanwhile
SpecPair == Init /\ [][NextPair]_vars

\* the handles of the gateways that store: the root, a sublevel, its sublevel
StoreHandles == {Root, <<A>>, <<A, A>>}

\* one writer at a time: the next store() is called from the callback of the
\* one before
DoStoreOn == \E h \in StoreHandles, id \in Ids :
    /\ Len(writes) < MaxCalls
    /\ \A i \in 1..Len(writes) : writes[i].called
    /\ store_on(h, id, Payload(Len(writes) + 1), TRUE)

\* requests of the conditional-cache gateway to a caller with its own error
\* callback, without If-None-Match
DoServePlain == \E u \in FileUrls :
    Len(reqs) < MaxReqs /\ serve(u, Undefined, TRUE, FALSE)

NextPartitions ==
    \/ DoStoreOn
    \/ DoWsClose
    \/ DoServePlain
    \/ DoProbeData
    \/ DoProbeEnd
    \/ DoProbeError
    \/ DoPayloadData
    \/ DoPayloadEnd

\* one gateway serving, gateways on several handles of its database storing
SpecPartitions == Init /\ [][NextPartitions]_vars

\* requests served while the same id is stored again and again
SpecOverwrite == Init /\ [][NextOverwrite]_vars

----------------------------------------------------------------------------
(* Properties of store().                                                  *)

\* C2: a store() call with a completion callback has called it exactly once
\* as soon as its write stream has emitted anything, in every order of
\* 'error' and 'close' (error only, close only, error then close, close then
\* error), and never before; without a callback nothing is called.
C2_CallbackExactlyOnce ==
    \A i \in 1..Len(writes) :
        LET w == writes[i] IN
        /\ w.hasFn /\ w.events # <<>> => Len(w.args) = 1 /\ w.called
        /\ w.hasFn /\ w.events = <<>> => w.args = <<>> /\ ~w.called
        /\ ~w.hasFn => w.args = <<>>

\* two calls with callbacks whose streams emitted both events, in both orders
C2_BothOrdersSeen ==
    /\ Len(writes) = 2
    /\ writes[1].hasFn /\ writes[2].hasFn
    /\ writes[1].events = <<"error", "close">> /\ Len(writes[1].args) = 1
    /\ writes[2].events = <<"close", "error">> /\ Len(writes[2].args) = 1

----------------------------------------------------------------------------
(* Properties of the conditional-cache gateway.                            *)

\* the request's path does not decode (and is not the favicon)
Undecodable(r) == r.url \in OtherUrls \ {FAVICON}

\* the probe reported the object absent: it ended without a chunk or an error
Absent(r) == r.events = <<"end">>

\* the request has reached the end of its response
Settled(r) == r.probe # "open" /\ r.payload \in {"none", "ended"}

\* C1 as claimed: once store(id, payload) has completed successfully on the
\* gateway, a request without If-None-Match for url(id), served by the same
\* gateway after that, whose probe did not fail, ends as a 200 response whose
\* body is exactly the payload.
C1_StoredThenServed ==
    \A i \in 1..Len(writes), j \in 1..Len(reqs) :
        LET w == writes[i]
            r == reqs[j] IN
        (/\ w.args = <<"void">>
         /\ Has(db, w.id)
         /\ Get(db, w.id).data = w.data
         /\ StrToNum(Get(db, w.id).index) <= r.t0
         /\ r.url = url(db, w.id)
         /\ r.inm = Undefined
         /\ ~Seen(r, "error")
         /\ Settled(r))
        => r.res.status = 200 /\ r.res.body = <<w.data>>

\* C3 as claimed: without a custom error callback, a request whose path does
\* not decode and a request whose probe reports the object absent are
\* answered with status 404.
C3_NotFoundIs404 ==
    \A j \in 1..Len(reqs) :
        LET r == reqs[j] IN
        ~r.custom /\ (Undecodable(r) \/ Absent(r)) => r.res.status = 404

\* C9 as claimed: on a not-found condition a custom error callback is called
\* exactly once, with the 'File not found.' error, and the gateway writes
\* nothing to the response; without a custom callback the gateway writes a
\* 404 response itself.
C9_NotFoundDelegation ==
    \A j \in 1..Len(reqs) :
        LET r == reqs[j] IN
        Undecodable(r) \/ Absent(r) =>
            /\ r.custom => r.cb = <<NotFoundMessage>> /\ r.res = NewResponse
            /\ ~r.custom => r.res.status = 404 /\ r.res.body = <<NotFoundMessage>>

\* C4: for a request whose probe found the object and did not fail, the object
\* not having been written again since the request began: when If-None-Match
\* denotes the object's version marker the response is 304, ended, with an
\* empty body and no payload stream opened; otherwise (another marker, or no
\* header) the payload stream is opened, ETag is the object's marker, the
\* status sent is 200 and the finished body is exactly the payload.
C4_ConditionalCache ==
    \A j \in 1..Len(reqs) :
        LET r == reqs[j] IN
        (/\ r.found
         /\ ~Seen(r, "error")
         /\ Has(r.store, r.query.id)
         /\ StrToNum(Get(r.store, r.query.id).index) <= r.t0)
        => LET o == Get(r.store, r.query.id) IN
           IF r.inm # Undefined /\ StrToNum(r.inm) = StrToNum(o.index)
           THEN /\ r.res.status = 304
                /\ r.res.ended
                /\ r.res.body = <<>>
                /\ r.payload = "none"
           ELSE /\ r.payload # "none"
                /\ "ETag" \in DOMAIN r.res.headers
                /\ r.res.headers["ETag"] = o.index
                /\ r.res.headersSent => r.res.status = 200
                /\ r.payload = "ended" => r.res.ended /\ r.res.body = <<o.data>>

\* a finished 200 response to a request that sent the stale marker 2
C4_StaleTokenServed ==
    \E j \in 1..Len(reqs) :
        /\ reqs[j].inm = <<"2">>
        /\ reqs[j].payload = "ended"
        /\ reqs[j].res.status = 200
        /\ reqs[j].res.body = <<"p1">>
        /\ reqs[j].res.headers["ETag"] = <<"1">>

\* C8: without a custom error callback, a request whose probe fails (its
\* first event is 'error') is answered with status 500; the body is the
\* error's text when NODE_ENV is not 'production', and in production it is
\* the fixed message and nothing of the error.
C8_ProbeFailureIs500 ==
    \A j \in 1..Len(reqs) :
        LET r == reqs[j] IN
        ~r.custom /\ r.events # <<>> /\ r.events[1] = "error" =>
            /\ r.res.status = 500
            /\ r.res.ended
            /\ r.res.env = "production" => r.res.body = <<Oops>>
            /\ r.res.env # "production" => r.res.body = <<ErrToString(StoreFailure)>>

\* a probe failure answered in production mode
C8_ProductionFailureSeen ==
    \E j \in 1..Len(reqs) :
        /\ ~reqs[j].custom
        /\ reqs[j].events = <<"error">>
        /\ reqs[j].res.env = "production"
        /\ reqs[j].res.status = 500
        /\ reqs[j].res.body = <<Oops>>

\* how often the handler named what has run for the request
Times(log, what) == Cardinality({k \in 1..Len(log) : log[k] = what})

\* the runs of send that began a 200 or a 304 response
Successes(r) == Times(r.log, "send200") + Times(r.log, "send304")

\* the runs of the error handler that the not-found handler did not make
Failures(r) == Times(r.log, "error") - Times(r.log, "notFound")

\* C11 as claimed: whatever the probe stream emits, in whatever order, a
\* request has at most one terminal outcome: a success response begun, the
\* not-found handler run, or the error handler run -- one of them, once.
C11_OneTerminalOutcome ==
    \A j \in 1..Len(reqs) :
        LET r == reqs[j] IN
        Successes(r) + Times(r.log, "notFound") + Failures(r) <= 1

\* C12 as claimed: in a 200 response the ETag is the marker of the version
\* whose bytes are streamed, however the probe and the payload read interleave
\* with writes of the same id: when the body sent is the payload of the
\* version the store holds, the ETag sent is that version's marker.
C12_ETagOfStreamedVersion ==
    \A j \in 1..Len(reqs) :
        LET r == reqs[j] IN
        (/\ r.res.status = 200
         /\ Len(r.res.body) = 1
         /\ Has(r.store, r.query.id)
         /\ Get(r.store, r.query.id).data = r.res.body[1])
        => r.res.headers["ETag"] = Get(r.store, r.query.id).index

----------------------------------------------------------------------------
(* Properties of both gateways.                                            *)

\* the bytes store() was given
PayloadBytes == {Payloads[k] : k \in 1..Len(Payloads)}

\* the response holds bytes of an object
Streams(r) == \E k \in 1..Len(r.res.body) : r.res.body[k] \in PayloadBytes

\* the headers the gateway's policy sets before it pipes
HeadersSet(r) ==
    /\ "Content-Type" \in DOMAIN r.res.headers
    /\ r.policy = "etag" => "ETag" \in DOMAIN r.res.headers

\* the first thing the probe reported: the object absent, or a failure
ProbeSaidNo(r) ==
    r.events # <<>> /\ r.events[1] \in {"end", "absent", "error"}

\* the writes of id that committed in the partition part
CommittedIn(part, id) ==
    {i \in 1..Len(writes) :
        writes[i].db = part /\ writes[i].id = id /\ writes[i].at > 0}

\* C13: under both gateways a payload read stream is open, and bytes of an
\* object are in the response, only after the probe reported the object
\* present and with the headers set (Content-Type, and ETag under the
\* conditional-cache gateway); a request whose probe reported the object
\* absent or failed has no payload read stream and no payload byte.
C13_PayloadAfterProbeAndHeaders ==
    \A j \in 1..Len(reqs) :
        LET r == reqs[j] IN
        /\ r.payload # "none" \/ Streams(r) => r.found /\ HeadersSet(r)
        /\ Streams(r) => r.payload # "none"
        /\ ProbeSaidNo(r) => r.payload = "none" /\ ~Streams(r)

\* the conditional-cache gateway streaming the object after its probe's chunk
C13_StreamingAfterProbeSeen ==
    \E j \in 1..Len(reqs) :
        LET r == reqs[j] IN
        /\ r.policy = "etag" /\ r.events = <<"data">>
        /\ r.payload = "flowing" /\ r.res.body = <<"p1">>
        /\ r.res.headers["ETag"] = <<"1">>

\* C14 as claimed: under both gateways, when the payload read stream fails
\* while it is piped to the response, the request's error handler has received
\* the failure: it ran once for a request whose probe did not fail, and the
\* failure was not left uncaught.
C14_PayloadFailureHandled ==
    \A j \in 1..Len(reqs) :
        LET r == reqs[j] IN
        r.payload = "failed" /\ ~Seen(r, "error") =>
            /\ Failures(r) = 1
            /\ Times(r.log, "uncaught") = 0
            /\ r.custom => r.cb = <<StoreFailure>>

\* C15: a request for /files/<chain>/<id> finds an object only if a write of
\* that id committed in exactly the partition the chain leads to from the
\* gateway's handle, and finds one if such a write committed before the
\* request began; the bytes it streams are those of a write to that
\* partition.  Writes of the id to any other partition -- a prefix or an
\* extension of the chain included -- change neither.
C15_NamespaceIsolation ==
    \A j \in 1..Len(reqs) :
        LET r == reqs[j]
            part == db \o r.query.sublevels
            here == CommittedIn(part, r.query.id) IN
        r.query.match =>
            /\ r.found => here # {}
            /\ Absent(r) => \A i \in here : writes[i].at > r.t0
            /\ \A k \in 1..Len(r.res.body) :
                   \E i \in here : writes[i].data = r.res.body[k]

\* x was stored in the root and then in sublevel a/a; the gateway on the root
\* then served /files/x with the root's bytes
C15_OtherPartitionWrittenSeen ==
    /\ db = Root
    /\ Len(writes) = 2
    /\ writes[1].db = Root /\ writes[1].at = 1
    /\ writes[2].db = <<A, A>> /\ writes[2].at = 2
    /\ \E j \in 1..Len(reqs) :
           /\ reqs[j].t0 = 2
           /\ reqs[j].url = url(Root, X)
           /\ reqs[j].payload = "ended"
           /\ reqs[j].res.body = <<"p1">>

\* C17: under the existence-only gateway a request whose path decodes has no
\* outcome before the callback of exists runs, and that one callback gives it
\* exactly one of three: on a store error the error handler runs once (by
\* default a 500 response; a custom callback gets the error and the gateway
\* writes nothing); when the id is absent the response is 404 'File not
\* found.'; when it is present the response is 200 with the Content-Type of
\* the id and no other header, and its finished body is the whole payload of
\* a stored version.  No response is ever 304 or carries an ETag.
C17_ExistenceOnlyOutcomes ==
    \A j \in 1..Len(reqs) :
        LET r == reqs[j] IN
        r.policy = "exists" /\ r.query.match =>
            /\ r.res.status # 304 /\ "ETag" \notin DOMAIN r.res.headers
            /\ r.probe = "exists" => r.res = NewResponse /\ r.log = <<>> /\ r.cb = <<>>
            /\ r.probe = "ended" /\ r.events = <<"error">> =>
                   /\ r.log = <<"error">> /\ r.payload = "none"
                   /\ ~r.custom => r.res.status = 500 /\ r.res.ended
                   /\ r.custom => r.cb = <<StoreFailure>> /\ r.res = NewResponse
            /\ r.probe = "ended" /\ r.events = <<"absent">> =>
                   /\ r.log = <<"notFound">> /\ r.payload = "none" /\ r.cb = <<>>
                   /\ r.res.status = 404 /\ r.res.ended
                   /\ r.res.body = <<NotFoundMessage>>
            /\ r.probe = "ended" /\ r.events = <<"present">> =>
                   /\ r.log[1] = "send200" /\ Failures(r) = 0 /\ r.cb = <<>>
                   /\ r.res.status = 200
                   /\ r.res.headers = ("Content-Type" :> mime(r.query.id))
                   /\ r.payload = "ended" =>
                          /\ r.res.ended
                          /\ \E i \in CommittedIn(r.store, r.query.id) :
                                 r.res.body = <<writes[i].data>>
            /\ r.probe = "ended" => r.events \in {<<"error">>, <<"absent">>, <<"present">>}

\* a finished 200 response of the existence-only gateway
C17_ExistingServedSeen ==
    \E j \in 1..Len(reqs) :
        /\ reqs[j].policy = "exists"
        /\ reqs[j].events = <<"present">>
        /\ reqs[j].payload = "ended"
        /\ reqs[j].res.status = 200
        /\ reqs[j].res.body = <<"p1">>

\* the request is answered by serve itself, without the store
Storeless(r) ==
    /\ r.query = NoMatch /\ r.store = Root
    /\ r.probe = "none" /\ r.events = <<>> /\ r.found = FALSE
    /\ r.payload = "none"

\* C18: under both gateways the step that hands serve a favicon request or a
\* request whose path does not decode leaves the store, its partitions and
\* the writes in flight as they are, and the request never resolves a chain,
\* probes or reads: it is answered in that step and no later step touches
\* it.  The favicon's answer is an ended 200 response with no header and an
\* empty body.
C18_FaviconAndUndecodableFrame ==
    [][\A j \in 1..Len(reqs') :
          reqs'[j].url \in OtherUrls =>
              /\ Storeless(reqs'[j])
              /\ reqs'[j].url = FAVICON =>
                     /\ reqs'[j].res = end(NewResponse, <<>>)
                     /\ reqs'[j].res.status = 200
                     /\ reqs'[j].log = <<>> /\ reqs'[j].cb = <<>>
              /\ IF j <= Len(reqs) THEN reqs'[j] = reqs[j]
                 ELSE UNCHANGED <<db, objects, sublevels, clock, writes>>
      ]_vars

\* a favicon request answered by a gateway whose store holds an object
C18_FaviconAnsweredSeen ==
    /\ objects # {}
    /\ \E j \in 1..Len(reqs) :
           /\ reqs[j].url = FAVICON
           /\ reqs[j].t0 = 1
           /\ reqs[j].res.status = 200
           /\ reqs[j].res.ended
           /\ reqs[j].res.body = <<>>

\* neither the probe nor the payload stream of the request has failed
Unfailed(r) == ~Seen(r, "error") /\ r.payload # "failed"

\* the two requests were given the same and have seen the same of their own
\* streams and of the environment
SameRun(r, q) ==
    /\ r.url = q.url /\ r.inm = q.inm /\ r.custom = q.custom
    /\ r.events = q.events /\ r.payload = q.payload
    /\ r.res.env = q.res.env

----------------------------------------------------------------------------
(* Properties of resolveSubLevel.                                          *)

\* the handles on the way from h down the chain, h itself excluded
Descent(h, chain) == {h \o SubSeq(chain, 1, k) : k \in 1..Len(chain)}

\* C16: resolveSubLevel(db, [n1, ..., nk]) returns the handle reached from db
\* by taking child n1, then n2, ..., then nk (db itself for the empty chain)
\* and obtains exactly the handles on that way; and it is idempotent: called
\* again with the same handle and chain it returns the same partition and
\* creates no partition.
C16_ResolveInOrderIdempotent ==
    [][codec'.fn = "resolveSubLevel" /\ codec'.n > codec.n =>
          /\ codec'.ret = codec'.id \o codec'.arg
          /\ sublevels' = sublevels \cup Descent(codec'.id, codec'.arg)
          /\ codec'.ret0 = Descent(codec'.id, codec'.arg) \ sublevels
          /\ (codec.fn = "resolveSubLevel" /\ codec.id = codec'.id
                  /\ codec.arg = codec'.arg)
              => codec'.ret = codec.ret /\ codec'.ret0 = {} /\ sublevels' = sublevels
      ]_vars

\* the chain a, x was resolved from sublevel a twice: the second call
\* returned a/a/x again and created nothing
C16_ResolvedTwiceSeen ==
    /\ codec.fn = "resolveSubLevel"
    /\ codec.n = 2
    /\ codec.id = <<A>> /\ codec.arg = <<A, X>>
    /\ codec.ret = <<A, A, X>>
    /\ codec.ret0 = {}
    /\ sublevels = {<<A, A>>, <<A, A, X>>}

----------------------------------------------------------------------------
(* Properties of the URL codec.                                            *)

\* the path starts with /files/
StartsWithFiles(p) ==
    Len(p) >= 7 /\ SubSeq(p, 1, 7) = <<SLASH>> \o FILES \o <<SLASH>>

\* the path has no final id segment: nothing follows its last slash
LacksId(p) == p = <<>> \/ p[Len(p)] = SLASH

\* the segment between the first slash of the path and the next is 'files'
FilesAfterFirstSlash(p) ==
    \E k \in 1..Len(p) :
        /\ p[k] = SLASH
        /\ \A j \in 1..(k - 1) : p[j] # SLASH
        /\ Len(p) >= k + 5
        /\ SubSeq(p, k + 1, k + 5) = FILES
        /\ Len(p) = k + 5 \/ p[k + 6] = SLASH

\* the sequences n1, ..., nk, id of non-empty segments
ValidTails == SeqsUpTo(Segs \ {<<>>}, MaxSegs - 2) \ {<<>>}

\* non-empty and without a slash
Plain(name) == name # <<>> /\ \A k \in 1..Len(name) : name[k] # SLASH

\* C5 as claimed, for the handles reached by chains of plain names: for the
\* handle resolveSubLevel reaches from the root by the chain and any non-empty
\* id, parseURL of url(id) is that id with that chain.
C5_UrlLeftInverse ==
    /\ codec.fn = "url"
    /\ codec.id # <<>>
    /\ \A k \in 1..Len(codec.arg) : Plain(codec.arg[k])
    =>
        /\ codec.ret = [match |-> TRUE, id |-> codec.id, sublevels |-> codec.arg]
        /\ codec.ret0 = [match |-> TRUE, id |-> codec.id, sublevels |-> codec.arg]

\* C6 as claimed: a path that does not start with /files/, or that has no
\* final id segment, gets the no-match result from both parseURL functions,
\* and no result has an empty id.
C6_NoMatchOutsideFiles ==
    codec.fn = "parseURL" =>
        /\ ~StartsWithFiles(codec.arg) \/ LacksId(codec.arg) =>
               codec.ret = NoMatch /\ codec.ret0 = NoMatch
        /\ codec.ret.match => codec.ret.id # <<>>
        /\ codec.ret0.match => codec.ret0.id # <<>>

====
